---- MODULE Spec2Model ----
(***************************************************************************)
(* Peer connection and offline synchronization core of beehive:            *)
(*   src/src/offline/capabilities.js  (OfflineCapabilities, the Sync       *)
(*                                     Engine)                             *)
(*   src/src/network/p2p.js           (P2PNetwork: Peer Directory,         *)
(*                                     Connection Supervisor, Router)      *)
(* JavaScript runs one callback at a time, so the code between two awaits   *)
(* is one atomic action; every await on real I/O is a point where other     *)
(* callbacks interleave.                                                    *)
(***************************************************************************)
EXTENDS Integers, Sequences, FiniteSets, TLC

(***************************************************************************)
(* Bounds of the model.                                                     *)
(***************************************************************************)
\* Date.now() is sampled on a coarse clock: it advances by TickMs milliseconds
\* at a time and stops after MaxClock ticks.
MaxClock == 1
TickMs == 15000
\* Concurrent callers of syncWithPeers.
NumCalls == 2
\* Longest peers list handed to syncWithPeers.
MaxPeerList == 2
\* Version vectors reported by peers are drawn from 0..MaxVec.
MaxVec == 1

\* null, undefined, or a rejected promise: a value outside every data range
Null == 0 - 1

(***************************************************************************)
(* Sync Engine: inputs                                                      *)
(***************************************************************************)
Calls == 1..NumCalls
SyncPeers == {"peerA", "peerB"}
Items == {"doc1"}
Vectors == 0..MaxVec
PeerLists == UNION {[1..n -> SyncPeers] : n \in 0..MaxPeerList}

VARIABLES
  now,             \* Date.now()
  syncInProgress,  \* syncState.syncInProgress
  lastSync,        \* syncState.lastSync
  pendingChanges,  \* syncState.pendingChanges
  versionVector,   \* syncState.versionVector
  calls            \* the invocations of syncWithPeers, one record per caller

syncVars == <<syncInProgress, lastSync, pendingChanges, versionVector, calls>>

VARIABLES
  peers,          \* this.peers: peer id -> descriptor
  connections,    \* this.connections: peer id -> connection
  connOrder,      \* the insertion order of this.connections (Map iteration)
  dbPeers,        \* table peers: the ids that have a row
  dbConnections,  \* table connections: per peer id, the status of each row
  attempts,       \* establishConnection calls awaiting the offer/answer exchange
  awaited,        \* per peer id, the connection objects that pending calls of
                  \* initializeConnection will return
  timers,         \* pending setTimeout callbacks of retryConnection
  mon,            \* the heartbeat callback: idle, or done with a monitor run
  result,         \* how the latest call of the public interface ended
  bcast,          \* the call of broadcast: its position in this.connections,
                  \* the peers it has called sendToPeer for, and its outcome
  closing         \* the calls of handleConnectionTimeout that a monitor run
                  \* awaits and that are suspended at await closeConnection

netVars == <<peers, connections, connOrder, dbPeers, dbConnections, attempts,
             awaited, timers, mon, result, bcast, closing>>

vars == <<now, syncVars, netVars>>

\* The position of one invocation of syncWithPeers. contacted, failed and
\* exchanged are the indices of the peers whose vector was asked for, whose
\* turn ended in the catch, and whose exchangeChanges resolved (history).
IdleCall ==
  [pc |-> "idle", peers |-> <<>>, idx |-> 0, changes |-> {}, peerVector |-> 0,
   contacted |-> {}, failed |-> {}, exchanged |-> {}, outcome |-> "none"]

InFlight(c) == calls[c].pc \in {"awaitChanges", "awaitVector", "awaitExchange"}

SyncInit ==
  /\ syncInProgress = FALSE
  /\ lastSync = Null
  /\ pendingChanges = {}
  /\ versionVector = [p \in SyncPeers |-> Null]
  /\ calls = [c \in Calls |-> IdleCall]

\* queueForSync(id)
queueForSync(id) ==
  /\ pendingChanges' = pendingChanges \cup {id}
  /\ UNCHANGED <<netVars, now, syncInProgress, lastSync, versionVector, calls>>

\* The guard of syncWithPeers: a pass may start only when none is in progress.
SyncGuardSkipped == TRUE
SyncGuard == ~syncInProgress

\* compareVersionVectors(peerVector).needsUpdate, for the peer at hand
compareVersionVectors(peer, peerVector) == versionVector[peer] # peerVector

\* updateVersionVector(peer.id, peerVector): the entry of the peer takes up
\* the reported vector and never goes back (a vector is one counter here, and
\* Null stands for no entry).
updateVersionVectorOverwrites(vv, peer, peerVector) == [vv EXCEPT ![peer] = peerVector]
updateVersionVector(vv, peer, peerVector) ==
  [vv EXCEPT ![peer] = IF peerVector > @ THEN peerVector ELSE @]

\* The finally block: the flag is released whatever the outcome.
FinallyOnSuccessOnly(outcome) == IF outcome = "resolved" THEN FALSE ELSE syncInProgress
Finally(outcome) == FALSE

\* The for loop reaches index i: either the next peer's getVersionVector() is
\* invoked, or the list is exhausted and the pass ends (finally).
LoopAt(c, rec, i) ==
  IF i <= Len(rec.peers)
    THEN /\ calls' = [calls EXCEPT ![c] =
                [rec EXCEPT !.pc = "awaitVector", !.idx = i,
                            !.contacted = @ \cup {i}]]
         /\ UNCHANGED syncInProgress
    ELSE /\ calls' = [calls EXCEPT ![c] =
                [rec EXCEPT !.pc = "done", !.idx = 0, !.changes = {},
                            !.peerVector = 0, !.outcome = "resolved"]]
         /\ syncInProgress' = Finally("resolved")

\* The per-peer catch: the failure is logged and the loop continues.
PeerCatchRethrows(c, rec, i) ==
  /\ calls' = [calls EXCEPT ![c] =
        [rec EXCEPT !.pc = "done", !.idx = 0, !.changes = {}, !.peerVector = 0,
                    !.failed = @ \cup {i}, !.outcome = "rejected"]]
  /\ syncInProgress' = Finally("rejected")
PeerCatch(c, rec, i) == LoopAt(c, [rec EXCEPT !.failed = @ \cup {i}], i + 1)

\* 'Sync already in progress': the call returns at once.
SyncAlreadyInProgressThrows(c) ==
  /\ calls' = [calls EXCEPT ![c] = [IdleCall EXCEPT !.pc = "done", !.outcome = "rejected"]]
  /\ UNCHANGED <<syncInProgress, lastSync>>
SyncAlreadyInProgress(c) ==
  /\ calls' = [calls EXCEPT ![c] = [IdleCall EXCEPT !.pc = "done", !.outcome = "noop"]]
  /\ UNCHANGED <<syncInProgress, lastSync>>

\* syncWithPeers(peers), up to its first await
SyncWithPeers(c, ps) ==
  /\ calls[c].pc \in {"idle", "done"}
  /\ IF ~SyncGuard
       THEN SyncAlreadyInProgress(c)
       ELSE /\ syncInProgress' = TRUE
            /\ lastSync' = now
            /\ calls' = [calls EXCEPT ![c] =
                  [IdleCall EXCEPT !.pc = "awaitChanges", !.peers = ps]]
  /\ UNCHANGED <<netVars, now, pendingChanges, versionVector>>

\* getLocalChanges(): the local changes not yet synchronized, which are the
\* items of pendingChanges.
getLocalChangesNone(pending) == {}
getLocalChanges(pending) == pending

\* await this.getLocalChanges() settles
GetLocalChangesSettles(c, ok) ==
  /\ calls[c].pc = "awaitChanges"
  /\ IF ok
       THEN LoopAt(c, [calls[c] EXCEPT !.changes = getLocalChanges(pendingChanges)], 1)
       ELSE \* outer catch: log, rethrow; finally
            /\ calls' = [calls EXCEPT ![c] =
                  [@ EXCEPT !.pc = "done", !.outcome = "rejected"]]
            /\ syncInProgress' = Finally("rejected")
  /\ UNCHANGED <<netVars, now, lastSync, pendingChanges, versionVector>>

\* await peer.getVersionVector() settles: r is the vector, or Null on rejection.
\* cmpOk, updOk: whether compareVersionVectors / updateVersionVector return.
GetVersionVectorSettles(c, r, cmpOk, updOk) ==
  LET rec == calls[c]
      i == rec.idx
      peer == rec.peers[i]
  IN /\ rec.pc = "awaitVector"
     /\ IF r = Null \/ ~cmpOk
          THEN PeerCatch(c, rec, i) /\ UNCHANGED versionVector
          ELSE IF compareVersionVectors(peer, r)
            THEN \* exchangeChanges(peer, diff) is invoked and awaited
                 /\ calls' = [calls EXCEPT ![c] =
                       [rec EXCEPT !.pc = "awaitExchange", !.peerVector = r]]
                 /\ UNCHANGED <<syncInProgress, versionVector>>
            ELSE IF updOk
              THEN /\ versionVector' = updateVersionVector(versionVector, peer, r)
                   /\ LoopAt(c, rec, i + 1)
              ELSE PeerCatch(c, rec, i) /\ UNCHANGED versionVector
     /\ UNCHANGED <<netVars, now, lastSync, pendingChanges>>

\* exchangeChanges(peer, diff): the pending changes once it has settled. The
\* changes handed over leave pendingChanges when the exchange succeeded.
exchangeChangesClearsOnFailure(pending, changes, ok) == pending \ changes
exchangeChanges(pending, changes, ok) ==
  IF ok THEN pending \ changes ELSE pending

\* await this.exchangeChanges(peer, diff) settles
ExchangeChangesSettles(c, ok, updOk) ==
  LET rec == calls[c]
      i == rec.idx
      peer == rec.peers[i]
      done == [rec EXCEPT !.exchanged = @ \cup {i}]
  IN /\ rec.pc = "awaitExchange"
     /\ pendingChanges' = exchangeChanges(pendingChanges, rec.changes, ok)
     /\ IF ok
          THEN IF updOk
                 THEN /\ versionVector' =
                           updateVersionVector(versionVector, peer, rec.peerVector)
                      /\ LoopAt(c, done, i + 1)
                 ELSE PeerCatch(c, done, i) /\ UNCHANGED versionVector
          ELSE PeerCatch(c, rec, i) /\ UNCHANGED versionVector
     /\ UNCHANGED <<netVars, now, lastSync>>

(***************************************************************************)
(* P2PNetwork: inputs and configuration                                     *)
(***************************************************************************)
\* limits.maxPeers and limits.maxConnections are configuration values (10 and
\* 20 by default); the model runs the same code under small limits so that
\* both limits are reached.
maxPeers == 2
maxConnections == 2
\* config.maxRetries
maxRetries == 3
\* config.connectionTimeout (ms)
connectionTimeout == 10000
\* config.retryDelay (ms)
retryDelay == 1000
\* Offer/answer exchanges in flight and pending retry timers, over all peers;
\* persisted connection rows, per peer.
MaxAttempts == 2
MaxTimers == 1
MaxRows == 2
\* Monitor runs suspended at the close of a connection, and the retry timers
\* pending while monitor runs overlap.
MaxRuns == 2
MaxRunTimers == 2

Keys == {"key-0", "key-1", "key-2"}
Names == {"Alice", "Bob"}
\* A peer descriptor; metadata is opaque and left out.
Descriptors == [name : Names, publicKey : Keys]
\* The two descriptors that the specifications other than MsgSpec register.
TwoPeers == {d \in Descriptors : d.name = "Alice" /\ d.publicKey \in {"key-0", "key-1"}}

\* generatePeerId(peer): the hex digest of the public key, a one-way injective
\* image of it.
generatePeerIdOfDescriptor(peer) == <<"sha256", peer.publicKey, peer.name>>
generatePeerId(peer) == <<"sha256", peer.publicKey>>
PeerIds == {generatePeerId(d) : d \in Descriptors}
\* An id that no registered peer has: removePeer and initializeConnection take
\* any string.
UnknownId == <<"sha256", "key-x">>
ConnIds == PeerIds \cup {UnknownId}
\* The ids of TwoPeers, and with the id that no peer has.
TwoIds == {generatePeerId(d) : d \in TwoPeers}
TwoConnIds == TwoIds \cup {UnknownId}

MsgTypes == {"PEER_ANNOUNCE", "TEST"}
\* A received value: whether it is an object, whether its type is a string,
\* the type, whether its data field is present, and the data. A field that
\* the value does not have holds a placeholder that is never read.
NoData == [name |-> "Alice", publicKey |-> "key-0"]
Messages ==
  [isObject : {TRUE}, typeIsString : {TRUE}, type : MsgTypes,
   hasData : {TRUE}, data : Descriptors]
  \cup [isObject : {TRUE}, typeIsString : {TRUE}, type : MsgTypes,
        hasData : {FALSE}, data : {NoData}]
  \cup [isObject : {TRUE}, typeIsString : {FALSE}, type : {"TEST"},
        hasData : {TRUE}, data : {NoData}]
  \cup [isObject : {FALSE}, typeIsString : {FALSE}, type : {"TEST"},
        hasData : {FALSE}, data : {NoData}]

PeerLimitError == "Maximum peer limit reached"
ConnectionLimitError == "Maximum connection limit reached"
PeerNotFoundError == "Peer not found"
InvalidMessageError == "Invalid message format"

\* No broadcast has been called. sent and failed are the calls of sendToPeer
\* and the failures logged, in order (history, not program state).
IdleBroadcast == [pc |-> "idle", idx |-> 0, sent |-> <<>>, failed |-> <<>>,
                  outcome |-> "none"]

NetInit ==
  /\ peers = <<>>
  /\ connections = <<>>
  /\ connOrder = <<>>
  /\ dbPeers = {}
  /\ dbConnections = [p \in ConnIds |-> <<>>]
  /\ attempts = [p \in ConnIds |-> 0]
  /\ awaited = [p \in ConnIds |-> <<>>]
  /\ timers = [p \in ConnIds |-> 0]
  /\ mon = "idle"
  /\ result = "ok"
  /\ bcast = IdleBroadcast
  /\ closing = <<>>

\* Map.set(key, value)
MapSet(m, k, v) == [x \in DOMAIN m \cup {k} |-> IF x = k THEN v ELSE m[x]]
\* Map.delete(key)
MapDelete(m, k) == [x \in DOMAIN m \ {k} |-> m[x]]
\* The insertion order after Map.set(key, _)
OrderSet(order, k) ==
  IF \E i \in 1..Len(order) : order[i] = k THEN order ELSE Append(order, k)

\* The connections of the model: status, retries and lastActive as in the code
\* (id and established are never read and are left out); handled counts the
\* timeouts and failures given to the retry policy since the record was
\* created, up to maxRetries + 1 (history, not program state); delay is the
\* delay that the record's latest retry timer was given (Null: none yet).
NewConnection == [status |-> "initializing", retries |-> 0, lastActive |-> Null,
                  handled |-> 0, delay |-> Null]

\* updateConnectionStatus(peerId, status): the record and its rows
updateConnectionStatusResetsRetries(conns, peerId, status) ==
  IF peerId \in DOMAIN conns
    THEN [conns EXCEPT ![peerId].status = status, ![peerId].lastActive = now,
                       ![peerId].retries = 0]
    ELSE conns
updateConnectionStatus(conns, peerId, status) ==
  IF peerId \in DOMAIN conns
    THEN [conns EXCEPT ![peerId].status = status, ![peerId].lastActive = now]
    ELSE conns
updateConnectionRows(conns, rows, peerId, status) ==
  IF peerId \in DOMAIN conns
    THEN [rows EXCEPT ![peerId] = [i \in 1..Len(@) |-> status]]
    ELSE rows

\* closeConnection(peerId): the connection is closed and its record kept.
\* Here it is no suspension point: the awaits on it resume within the same
\* callback. (The case of a close that takes time is followed in OverlapSpec.)
closeConnection(conns, peerId) == updateConnectionStatus(conns, peerId, "closed")

\* shouldRetryConnection(peerId)
shouldRetryAlways(conns, peerId) == peerId \in DOMAIN conns
shouldRetryConnection(conns, peerId) ==
  peerId \in DOMAIN conns /\ conns[peerId].retries < maxRetries

\* The delay given to setTimeout, from the counter as it is read there.
backoffConstant(retries) == retryDelay
backoff(retries) == retryDelay * retries

\* retryConnection(peerId): connection.retries++, then setTimeout with the
\* delay computed from the incremented counter (the timer itself is counted
\* in timers by the caller)
retryNoIncrement(conns, peerId) == conns
retryConnection(conns, peerId) ==
  IF peerId \in DOMAIN conns
    THEN [conns EXCEPT ![peerId].retries = @ + 1,
                       ![peerId].delay = backoff(conns[peerId].retries + 1)]
    ELSE conns

\* One more timeout or failure of peerId's connection reached the retry policy.
CountHandled(conns, peerId) ==
  IF peerId \in DOMAIN conns /\ conns[peerId].handled <= maxRetries
    THEN [conns EXCEPT ![peerId].handled = @ + 1]
    ELSE conns

\* The retry policy after closeConnection: what handleConnectionTimeout does
\* once the close has settled. Gives the connections and the timers.
RetryPolicy(conns, tms, peerId) ==
  IF shouldRetryConnection(conns, peerId)
    THEN [connections |-> CountHandled(retryConnection(conns, peerId), peerId),
          timers |-> [tms EXCEPT ![peerId] = @ + 1]]
    ELSE [connections |-> CountHandled(conns, peerId), timers |-> tms]

\* The model's caps: a step is taken only if it overflows no counter.
RECURSIVE Sum(_, _)
Sum(f, S) == IF S = {} THEN 0
             ELSE LET x == CHOOSE y \in S : TRUE IN f[x] + Sum(f, S \ {x})
Total(f) == Sum(f, DOMAIN f)
SchedulesWithinCap(conns, peerId) ==
  shouldRetryConnection(conns, peerId) => Total(timers) < MaxTimers

(***************************************************************************)
(* P2PNetwork: peer management                                              *)
(***************************************************************************)
\* addPeer's limit check
addPeerLimitOffByOne(prs) == Cardinality(DOMAIN prs) > maxPeers
addPeerLimit(prs) == Cardinality(DOMAIN prs) >= maxPeers

\* initializeConnection's limit check
initializeConnectionLimitOffByOne(conns) == Cardinality(DOMAIN conns) > maxConnections
initializeConnectionLimit(conns) == Cardinality(DOMAIN conns) >= maxConnections

\* connections.set(peerId, connection) replaces the object that the pending
\* calls of initializeConnection(peerId) hold: what they will return is no
\* longer the record of the map ("live") but an object that nothing updates
\* any more, left with the status it has now.
Detach(peerId) ==
  [i \in 1..Len(awaited[peerId]) |->
     IF awaited[peerId][i] = "live" THEN connections[peerId].status
     ELSE awaited[peerId][i]]

\* initializeConnection(peerId) up to its first await, for the directory prs:
\* the limit check, the new record, its row, connections.set, and
\* establishConnection(peerId) up to createOffer().
initializeConnection(prs, peerId) ==
  IF initializeConnectionLimit(connections)
    THEN [out |-> ConnectionLimitError, connections |-> connections,
          connOrder |-> connOrder, dbConnections |-> dbConnections,
          attempts |-> attempts, awaited |-> awaited]
    ELSE [out |-> IF peerId \in DOMAIN prs THEN "ok" ELSE PeerNotFoundError,
          connections |-> MapSet(connections, peerId, NewConnection),
          connOrder |-> OrderSet(connOrder, peerId),
          dbConnections |-> [dbConnections EXCEPT ![peerId] = Append(@, "initializing")],
          attempts |-> IF peerId \in DOMAIN prs
                         THEN [attempts EXCEPT ![peerId] = @ + 1]
                         ELSE attempts,
          awaited |-> IF peerId \in DOMAIN prs
                        THEN [awaited EXCEPT ![peerId] = Append(Detach(peerId), "live")]
                        ELSE [awaited EXCEPT ![peerId] = Detach(peerId)]]

\* The model's caps on rows and attempts in flight.
InitWithinCap(prs, peerId) ==
  ~initializeConnectionLimit(connections) =>
     /\ Len(dbConnections[peerId]) < MaxRows
     /\ peerId \in DOMAIN prs => Total(attempts) < MaxAttempts

\* addPeer(peer). initializeConnection is not awaited: its rejection does not
\* reach the caller.
addPeer(peer) ==
  LET peerId == generatePeerId(peer)
      prs == MapSet(peers, peerId, peer)
      ic == initializeConnection(prs, peerId)
  IN IF addPeerLimit(peers)
       THEN /\ result' = PeerLimitError
            /\ UNCHANGED <<peers, connections, connOrder, dbPeers, dbConnections,
                           attempts, awaited>>
       ELSE /\ InitWithinCap(prs, peerId)
            /\ dbPeers' = dbPeers \cup {peerId}
            /\ peers' = prs
            /\ connections' = ic.connections
            /\ connOrder' = ic.connOrder
            /\ dbConnections' = ic.dbConnections
            /\ attempts' = ic.attempts
            /\ awaited' = ic.awaited
            /\ result' = "ok"

AddPeer(peer) ==
  /\ addPeer(peer)
  /\ UNCHANGED <<now, syncVars, bcast, closing, timers, mon>>

\* removePeer(peerId)
RemovePeerUnknownThrows(peerId) ==
  /\ result' = IF peerId \in DOMAIN peers THEN "ok" ELSE PeerNotFoundError
  /\ connections' = IF peerId \in DOMAIN connections /\ peerId \in DOMAIN peers
                      THEN closeConnection(connections, peerId)
                      ELSE connections
  /\ dbPeers' = dbPeers \ {peerId}
  /\ dbConnections' = IF peerId \in DOMAIN peers
                        THEN [dbConnections EXCEPT ![peerId] = <<>>]
                        ELSE dbConnections
  /\ peers' = MapDelete(peers, peerId)
  /\ UNCHANGED <<now, syncVars, bcast, closing, connOrder, attempts, awaited, timers, mon>>
RemovePeer(peerId) ==
  /\ connections' = IF peerId \in DOMAIN connections
                      THEN closeConnection(connections, peerId)
                      ELSE connections
  /\ dbPeers' = dbPeers \ {peerId}
  /\ dbConnections' = [dbConnections EXCEPT ![peerId] = <<>>]
  /\ peers' = MapDelete(peers, peerId)
  /\ result' = "ok"
  /\ UNCHANGED <<now, syncVars, bcast, closing, connOrder, attempts, awaited, timers, mon>>

(***************************************************************************)
(* P2PNetwork: connection management                                        *)
(***************************************************************************)
\* initializeConnection(peerId), called directly: it ends at once with an
\* error, or waits for establishConnection (and ends in EstablishSettles).
InitializeConnection(peerId) ==
  LET ic == initializeConnection(peers, peerId)
  IN /\ InitWithinCap(peers, peerId)
     /\ connections' = ic.connections
     /\ connOrder' = ic.connOrder
     /\ dbConnections' = ic.dbConnections
     /\ attempts' = ic.attempts
     /\ awaited' = ic.awaited
     /\ result' = IF ic.out = "ok" THEN result ELSE ic.out
     /\ UNCHANGED <<now, syncVars, bcast, closing, peers, dbPeers, timers, mon>>

\* handleConnectionTimeout(peerId): closeConnection, then shouldRetryConnection
\* and retryConnection. Gives the connections, the timers and the rows.
handleConnectionTimeout(st, peerId) ==
  LET closed == closeConnection(st.connections, peerId)
      rp == RetryPolicy(closed, st.timers, peerId)
  IN [connections |-> rp.connections, timers |-> rp.timers,
      dbConnections |->
        updateConnectionRows(st.connections, st.dbConnections, peerId, "closed")]

\* handleConnectionError(peerId, err): the retry policy on an establishment
\* failure: the connection is closed and, if shouldRetryConnection, retried.
handleConnectionError(st, peerId) == handleConnectionTimeout(st, peerId)

NetState == [connections |-> connections, timers |-> timers,
             dbConnections |-> dbConnections]

\* The connection that a call of initializeConnection returns, by its status.
Returned(status) ==
  CASE status = "initializing" -> "connection initializing"
    [] status = "connected" -> "connection connected"
    [] OTHER -> "connection closed"
ExchangeError == "offer/answer exchange failed"

\* The catch of establishConnection: the error goes to handleConnectionError
\* and the call resolves.
establishCatchRethrows == "rejected"
establishCatch == "resolved"

\* The sequence without its i-th element.
RemoveAt(seq, i) == [j \in 1..(Len(seq) - 1) |-> IF j < i THEN seq[j] ELSE seq[j + 1]]

\* establishConnection(peerId): the offer/answer exchange settles. ok: every
\* step returned and the connection is connected; otherwise the catch hands the
\* error to handleConnectionError. i: the call of initializeConnection that
\* awaits this establishConnection and now returns its connection, or 0 if it
\* was started by a retry timer.
EstablishSettles(peerId, ok, i) ==
  LET he == handleConnectionError(NetState, peerId)
      conns == IF ok THEN updateConnectionStatus(connections, peerId, "connected")
               ELSE he.connections
      status == IF awaited[peerId][i] = "live" THEN conns[peerId].status
                ELSE awaited[peerId][i]
  IN /\ attempts[peerId] > 0
     /\ i \in 0..Len(awaited[peerId])
     /\ i = 0 => attempts[peerId] > Len(awaited[peerId])
     /\ attempts' = [attempts EXCEPT ![peerId] = @ - 1]
     /\ awaited' = IF i = 0 THEN awaited
                   ELSE [awaited EXCEPT ![peerId] = RemoveAt(@, i)]
     /\ connections' = conns
     /\ IF ok
          THEN /\ dbConnections' =
                    updateConnectionRows(connections, dbConnections, peerId, "connected")
               /\ UNCHANGED timers
          ELSE /\ SchedulesWithinCap(connections, peerId)
               /\ timers' = he.timers
               /\ dbConnections' = he.dbConnections
     /\ result' = IF i = 0 THEN result
                  ELSE IF ~ok /\ establishCatch = "rejected" THEN ExchangeError
                  ELSE Returned(status)
     /\ UNCHANGED <<now, syncVars, bcast, closing, peers, connOrder, dbPeers, mon>>

\* The setTimeout callback of retryConnection: establishConnection(peerId) up
\* to createOffer(); 'Peer not found' is thrown inside the callback.
RetryTimerFires(peerId) ==
  /\ timers[peerId] > 0
  /\ timers' = [timers EXCEPT ![peerId] = @ - 1]
  /\ IF peerId \in DOMAIN peers
       THEN /\ Total(attempts) < MaxAttempts
            /\ attempts' = [attempts EXCEPT ![peerId] = @ + 1]
       ELSE UNCHANGED attempts
  /\ UNCHANGED <<now, syncVars, bcast, closing, peers, connections, connOrder, dbPeers, dbConnections,
                 awaited, mon, result>>

\* handleConnectionTimeout(peerId), called directly
HandleConnectionTimeout(peerId) ==
  LET ht == handleConnectionTimeout(NetState, peerId)
  IN /\ SchedulesWithinCap(connections, peerId)
     /\ connections' = ht.connections
     /\ timers' = ht.timers
     /\ dbConnections' = ht.dbConnections
     /\ UNCHANGED <<now, syncVars, bcast, closing, peers, connOrder, dbPeers, attempts, awaited, mon,
                    result>>

\* The test of monitorConnections on one connection, at the run's now.
\* (A record that was never given a lastActive compares as NaN: false.)
timedOutReversed(conn, t) ==
  conn.status = "connected" /\ conn.lastActive # Null
    /\ t - conn.lastActive < connectionTimeout
timedOut(conn, t) ==
  conn.status = "connected" /\ conn.lastActive # Null
    /\ t - conn.lastActive > connectionTimeout

\* The loop of monitorConnections over this.connections from position j on.
RECURSIVE monitorLoop(_, _, _)
monitorLoop(st, j, t) ==
  IF j > Len(connOrder) THEN st
  ELSE LET peerId == connOrder[j]
       IN monitorLoop(IF timedOut(st.connections[peerId], t)
                        THEN handleConnectionTimeout(st, peerId)
                        ELSE st,
                      j + 1, t)

\* monitorConnections(), called by the heartbeat interval
MonitorConnections ==
  LET st == monitorLoop(NetState, 1, now)
  IN /\ mon = "idle"
     /\ Total(st.timers) <= MaxTimers
     /\ connections' = st.connections
     /\ timers' = st.timers
     /\ dbConnections' = st.dbConnections
     /\ mon' = "done"
     /\ UNCHANGED <<now, syncVars, bcast, closing, peers, connOrder, dbPeers, attempts, awaited,
                    result>>

\* The heartbeat callback returns.
MonitorReturns ==
  /\ mon = "done"
  /\ mon' = "idle"
  /\ UNCHANGED <<now, syncVars, bcast, closing, peers, connections, connOrder, dbPeers, dbConnections,
                 attempts, awaited, timers, result>>

(***************************************************************************)
(* P2PNetwork: message handling                                             *)
(***************************************************************************)
\* validateMessage(message): an object with a string type and a data field
\* that is not undefined.
validateMessageIgnoresData(message) ==
  message.isObject /\ message.typeIsString
validateMessage(message) ==
  message.isObject /\ message.typeIsString /\ message.hasData

\* handlePeerAnnouncement(data): registers the announced peer as addPeer does.
handlePeerAnnouncementDrops(data) ==
  /\ result' = "ok"
  /\ UNCHANGED <<peers, connections, connOrder, dbPeers, dbConnections, attempts,
                 awaited>>
handlePeerAnnouncement(data) == addPeer(data)

\* handleMessage(message)
HandleMessageThrowsOnUnknown(message) ==
  /\ IF ~validateMessage(message)
       THEN /\ result' = InvalidMessageError
            /\ UNCHANGED <<peers, connections, connOrder, dbPeers, dbConnections,
                           attempts, awaited>>
       ELSE IF message.type = "PEER_ANNOUNCE"
         THEN handlePeerAnnouncement(message.data)
         ELSE /\ result' = "Unknown message type"
              /\ UNCHANGED <<peers, connections, connOrder, dbPeers, dbConnections,
                             attempts, awaited>>
  /\ UNCHANGED <<now, syncVars, bcast, closing, timers, mon>>
HandleMessage(message) ==
  /\ IF ~validateMessage(message)
       THEN /\ result' = InvalidMessageError
            /\ UNCHANGED <<peers, connections, connOrder, dbPeers, dbConnections,
                           attempts, awaited>>
       ELSE IF message.type = "PEER_ANNOUNCE"
         THEN handlePeerAnnouncement(message.data)
         ELSE \* 'Unknown message type'
              /\ result' = "ok"
              /\ UNCHANGED <<peers, connections, connOrder, dbPeers, dbConnections,
                             attempts, awaited>>
  /\ UNCHANGED <<now, syncVars, bcast, closing, timers, mon>>

(***************************************************************************)
(* P2PNetwork: broadcast                                                    *)
(***************************************************************************)
\* The test of broadcast on one connection
sendConditionAlways(connection) == TRUE
sendCondition(connection) == connection.status = "connected"

\* The position of the first entry of this.connections from position i on
\* that passes the test, or one past the end.
RECURSIVE nextToSend(_)
nextToSend(i) ==
  IF i > Len(connOrder) THEN i
  ELSE IF sendCondition(connections[connOrder[i]]) THEN i
  ELSE nextToSend(i + 1)

\* The loop of broadcast from position i on, up to its next await or its end.
broadcastLoop(b, i) ==
  LET j == nextToSend(i)
  IN IF j > Len(connOrder)
       THEN [b EXCEPT !.pc = "done", !.idx = Len(connOrder), !.outcome = "resolved"]
       ELSE [b EXCEPT !.pc = "sending", !.idx = j, !.sent = Append(@, connOrder[j])]

\* broadcast(message), one call at a time
Broadcast ==
  /\ bcast.pc \in {"idle", "done"}
  /\ bcast' = broadcastLoop(IdleBroadcast, 1)
  /\ UNCHANGED <<now, syncVars, closing, peers, connections, connOrder, dbPeers,
                 dbConnections, attempts, awaited, timers, mon, result>>

\* The catch around sendToPeer: the error is logged and the loop goes on.
broadcastCatchRethrows == "rejected"
broadcastCatch == "continue"

\* The awaited sendToPeer settles.
SendSettlesRefreshes(ok) ==
  LET logged == [bcast EXCEPT !.failed = Append(@, connOrder[bcast.idx])]
  IN /\ bcast.pc = "sending"
     /\ bcast' = IF ok THEN broadcastLoop(bcast, bcast.idx + 1)
                 ELSE IF broadcastCatch = "rejected"
                   THEN [logged EXCEPT !.pc = "done", !.outcome = "rejected"]
                   ELSE broadcastLoop(logged, bcast.idx + 1)
     /\ connections' = IF ok
                         THEN [connections EXCEPT ![connOrder[bcast.idx]].lastActive = now]
                         ELSE connections
     /\ UNCHANGED <<now, syncVars, closing, peers, connOrder, dbPeers,
                    dbConnections, attempts, awaited, timers, mon, result>>
SendSettles(ok) ==
  LET logged == [bcast EXCEPT !.failed = Append(@, connOrder[bcast.idx])]
  IN /\ bcast.pc = "sending"
     /\ bcast' = IF ok THEN broadcastLoop(bcast, bcast.idx + 1)
                 ELSE IF broadcastCatch = "rejected"
                   THEN [logged EXCEPT !.pc = "done", !.outcome = "rejected"]
                   ELSE broadcastLoop(logged, bcast.idx + 1)
     /\ UNCHANGED <<now, syncVars, closing, peers, connections, connOrder, dbPeers,
                    dbConnections, attempts, awaited, timers, mon, result>>

(***************************************************************************)
(* P2PNetwork: monitor runs that overlap                                    *)
(***************************************************************************)
\* closeConnection is awaited by handleConnectionTimeout. Where the close
\* needs no I/O the await resumes within the same callback, as in
\* MonitorConnections above; the actions below follow the monitor when the
\* close takes time, so that other callbacks run while the call is suspended.
\* Whether closeConnection has marked the connection closed when it suspends
\* (early) or marks it when the close completes is not decided: both happen.
closeBegins(conns, peerId, early) ==
  IF early THEN closeConnection(conns, peerId) ELSE conns

\* The position from j on of the first entry of this.connections that the
\* monitor run started at t finds timed out, or one past the end.
RECURSIVE nextTimedOut(_, _, _)
nextTimedOut(conns, j, t) ==
  IF j > Len(connOrder) THEN j
  ELSE IF timedOut(conns[connOrder[j]], t) THEN j
  ELSE nextTimedOut(conns, j + 1, t)

Position(peerId) == CHOOSE k \in 1..Len(connOrder) : connOrder[k] = peerId

\* A call of handleConnectionTimeout(peerId) suspended at the close, made by
\* the monitor run that started at now. stamp and done are history: the
\* lastActive that made the run find the connection timed out, and whether
\* another call has meanwhile completed for that same timeout.
Suspended(conns, peerId, t) ==
  [peerId |-> peerId, now |-> t, stamp |-> conns[peerId].lastActive, done |-> FALSE]

\* monitorConnections(), up to its first await: the first timed-out
\* connection is handed to handleConnectionTimeout, which awaits the close.
MonitorStarts(early) ==
  LET j == nextTimedOut(connections, 1, now)
      peerId == connOrder[j]
  IN /\ j <= Len(connOrder)
     /\ Len(closing) < MaxRuns
     /\ connections' = closeBegins(connections, peerId, early)
     /\ dbConnections' =
          IF early THEN updateConnectionRows(connections, dbConnections, peerId, "closed")
          ELSE dbConnections
     /\ closing' = Append(closing, Suspended(connections, peerId, now))
     /\ UNCHANGED <<now, syncVars, bcast, peers, connOrder, dbPeers, attempts, awaited,
                    timers, mon, result>>

\* The close awaited by the i-th suspended call completes: the connection is
\* closed, handleConnectionTimeout applies the retry policy, and the monitor
\* run goes on to the next connection that it finds timed out, if any.
CloseSettles(i, early) ==
  LET call == closing[i]
      ht == handleConnectionTimeout(NetState, call.peerId)
      others == [k \in 1..(Len(closing) - 1) |->
                   LET c == RemoveAt(closing, i)[k]
                   IN IF c.peerId = call.peerId /\ c.stamp = call.stamp
                        THEN [c EXCEPT !.done = TRUE] ELSE c]
      j == nextTimedOut(ht.connections, Position(call.peerId) + 1, call.now)
  IN /\ i \in DOMAIN closing
     /\ Total(ht.timers) <= MaxRunTimers
     /\ timers' = ht.timers
     /\ IF j <= Len(connOrder)
          THEN /\ connections' = closeBegins(ht.connections, connOrder[j], early)
               /\ dbConnections' =
                    IF early
                      THEN updateConnectionRows(ht.connections, ht.dbConnections,
                                                connOrder[j], "closed")
                      ELSE ht.dbConnections
               /\ closing' = Append(others, Suspended(ht.connections, connOrder[j], call.now))
          ELSE /\ connections' = ht.connections
               /\ dbConnections' = ht.dbConnections
               /\ closing' = others
     /\ UNCHANGED <<now, syncVars, bcast, peers, connOrder, dbPeers, attempts, awaited,
                    mon, result>>

\* Date.now() advances
Tick ==
  /\ now < MaxClock * TickMs
  /\ now' = now + TickMs
  /\ UNCHANGED <<syncVars, netVars>>

Init == now = 0 /\ SyncInit /\ NetInit

SyncNext ==
  \/ Tick
  \/ \E id \in Items : queueForSync(id)
  \/ \E c \in Calls, ps \in PeerLists : SyncWithPeers(c, ps)
  \/ \E c \in Calls, ok \in BOOLEAN : GetLocalChangesSettles(c, ok)
  \/ \E c \in Calls, r \in Vectors \cup {Null}, cmpOk \in BOOLEAN, updOk \in BOOLEAN :
        GetVersionVectorSettles(c, r, cmpOk, updOk)
  \/ \E c \in Calls, ok \in BOOLEAN, updOk \in BOOLEAN : ExchangeChangesSettles(c, ok, updOk)

\* Spec follows every operation with at most SpecAttempts offer/answer
\* exchanges in flight; RaceSpec follows the operations that start and end
\* exchanges with up to MaxAttempts of them in flight.
SpecAttempts == 1
OneAttempt == Total(attempts') <= SpecAttempts

Next ==
  \/ Tick
  \/ \E d \in TwoPeers : AddPeer(d) /\ OneAttempt
  \/ \E p \in TwoConnIds : RemovePeer(p)
  \/ \E p \in TwoConnIds : InitializeConnection(p) /\ OneAttempt
  \/ \E p \in TwoIds, ok \in BOOLEAN, i \in 0..MaxAttempts : EstablishSettles(p, ok, i)
  \/ \E p \in TwoIds : RetryTimerFires(p) /\ OneAttempt
  \/ \E p \in TwoIds : HandleConnectionTimeout(p)
  \/ MonitorConnections
  \/ MonitorReturns

RaceNext ==
  \/ \E d \in TwoPeers : AddPeer(d)
  \/ \E p \in TwoConnIds : RemovePeer(p)
  \/ \E p \in TwoConnIds : InitializeConnection(p)
  \/ \E p \in TwoIds, ok \in BOOLEAN, i \in 0..MaxAttempts : EstablishSettles(p, ok, i)
  \/ \E p \in TwoIds : RetryTimerFires(p)

MsgNext ==
  \/ \E m \in Messages : HandleMessage(m)
  \/ \E d \in Descriptors : AddPeer(d)
  \/ \E p \in ConnIds : RemovePeer(p)
  \/ \E p \in PeerIds, ok \in BOOLEAN, i \in 0..MaxAttempts : EstablishSettles(p, ok, i)

BroadcastNext ==
  \/ Broadcast
  \/ \E ok \in BOOLEAN : SendSettles(ok)
  \/ \E d \in TwoPeers : AddPeer(d)
  \/ \E p \in TwoConnIds : RemovePeer(p)
  \/ \E p \in TwoConnIds : InitializeConnection(p)
  \/ \E p \in TwoIds, ok \in BOOLEAN, i \in 0..MaxAttempts : EstablishSettles(p, ok, i)
  \/ \E p \in TwoIds : HandleConnectionTimeout(p)

\* Traffic beside the heartbeat: messages handled and broadcasts sent while
\* connections are established, time passes and the monitor runs.
TrafficMessages ==
  {m \in Messages : m.isObject /\ m.typeIsString /\ m.hasData /\ m.data \in TwoPeers}
TrafficNext ==
  \/ Tick
  \/ \E d \in TwoPeers : AddPeer(d) /\ OneAttempt
  \/ \E p \in TwoIds, ok \in BOOLEAN, i \in 0..MaxAttempts : EstablishSettles(p, ok, i)
  \/ \E p \in TwoIds : RetryTimerFires(p) /\ OneAttempt
  \/ \E m \in TrafficMessages : HandleMessage(m) /\ OneAttempt
  \/ Broadcast
  \/ \E ok \in BOOLEAN : SendSettles(ok)
  \/ MonitorConnections
  \/ MonitorReturns

\* Monitor runs started by the heartbeat timers while earlier runs still
\* await a close.
OverlapNext ==
  \/ Tick
  \/ \E d \in TwoPeers : AddPeer(d) /\ OneAttempt
  \/ \E p \in TwoIds, ok \in BOOLEAN, i \in 0..MaxAttempts : EstablishSettles(p, ok, i)
  \/ \E p \in TwoIds : RetryTimerFires(p) /\ OneAttempt
  \/ \E early \in BOOLEAN : MonitorStarts(early)
  \/ \E i \in 1..MaxRuns, early \in BOOLEAN : CloseSettles(i, early)

\* The P2P network under any interleaving of its callers, timers and peers.
\* (Messages are routed in MsgSpec: an announcement acts on the network as
\* addPeer does.)
Spec == Init /\ [][Next]_vars

\* The P2P network with concurrent establishment attempts.
RaceSpec == Init /\ [][RaceNext]_vars

\* A broadcast beside the operations that change the connections.
BroadcastSpec == Init /\ [][BroadcastNext]_vars

\* The Message Router beside the callers that add and remove peers.
MsgSpec == Init /\ [][MsgNext]_vars

\* Inbound messages and broadcasts beside the heartbeat.
TrafficSpec == Init /\ [][TrafficNext]_vars

\* The heartbeat when closing a connection takes time.
OverlapSpec == Init /\ [][OverlapNext]_vars

\* waitForAnswer(peerId): the wait for the peer's answer is bounded, so an
\* offer/answer exchange in flight settles, with the answer or with an error.
waitForAnswerUnbounded(peerId) == TRUE
waitForAnswer(peerId) ==
  WF_vars(\E ok \in BOOLEAN, i \in 0..MaxAttempts : EstablishSettles(peerId, ok, i))

\* Concurrent establishment attempts whose waits are bounded.
EstablishLiveSpec == RaceSpec /\ \A p \in TwoIds : waitForAnswer(p)

\* The Sync Engine under any interleaving of its callers and peers.
SyncSpec == Init /\ [][SyncNext]_vars

\* The Sync Engine when its own methods are scheduled and bounded: the local
\* read of getLocalChanges settles, and so does exchangeChanges, with the
\* payload or with an error. Nothing makes peer.getVersionVector() settle:
\* it is the peer's method and its await carries no timeout.
SyncLiveSpec ==
  SyncSpec
    /\ \A c \in Calls :
          /\ WF_vars(\E ok \in BOOLEAN : GetLocalChangesSettles(c, ok))
          /\ WF_vars(\E ok \in BOOLEAN, updOk \in BOOLEAN : ExchangeChangesSettles(c, ok, updOk))

(***************************************************************************)
(* Properties of the Sync Engine (checked under SyncSpec)                   *)
(***************************************************************************)
\* C1: at most one synchronization pass is in flight at a time: while one call
\* of syncWithPeers is between setting and clearing syncInProgress, no other
\* call is past the guard.
C1_SingleFlight == Cardinality({c \in Calls : InFlight(c)}) <= 1
\* A pass is inside its per-peer loop and a concurrent call was turned away.
C1_Witness ==
  \E c, d \in Calls :
     /\ calls[c].pc \in {"awaitVector", "awaitExchange"}
     /\ calls[d].pc = "done" /\ calls[d].outcome = "noop"

\* C2: a pass that set syncInProgress leaves it false when it completes, on
\* every exit path: the flag is set only while some pass is still running.
C2_FlagReleased == syncInProgress => \E c \in Calls : InFlight(c)
\* One pass ended by a failure of getLocalChanges, another ended after a peer
\* failed, and the flag is clear.
C2_Witness ==
  /\ ~syncInProgress
  /\ \E c, d \in Calls :
        /\ calls[c].pc = "done" /\ calls[c].outcome = "rejected"
        /\ calls[d].pc = "done" /\ calls[d].outcome = "resolved"
        /\ calls[d].failed # {}

\* C3: a failure while contacting one peer does not abort the pass: a pass in
\* which some peer failed still contacts every peer of its list and resolves.
C3_PeerFailureIsolated ==
  \A c \in Calls :
     (calls[c].pc = "done" /\ calls[c].failed # {}) =>
        /\ calls[c].outcome = "resolved"
        /\ calls[c].contacted = 1..Len(calls[c].peers)
\* The first peer of a two-peer list failed, the second was contacted and did
\* not fail, and the call resolved.
C3_Witness ==
  \E c \in Calls :
     /\ calls[c].pc = "done" /\ calls[c].outcome = "resolved"
     /\ Len(calls[c].peers) = 2
     /\ calls[c].failed = {1} /\ 2 \in calls[c].contacted

C5_PeerLimitRejects ==
  [][\A d \in Descriptors :
        (Cardinality(DOMAIN peers) >= maxPeers /\ AddPeer(d)) =>
           /\ result' = PeerLimitError
           /\ Cardinality(DOMAIN peers') = maxPeers
           /\ UNCHANGED <<peers, dbPeers, connections, connOrder, dbConnections,
                          attempts, timers>>]_vars
\* A registration was rejected by a full directory that does not hold every key.
C5_Witness ==
  /\ result = PeerLimitError
  /\ Cardinality(DOMAIN peers) = maxPeers
  /\ \E d \in Descriptors :
        generatePeerId(d) \notin DOMAIN peers /\ generatePeerId(d) \notin dbPeers

\* C6: in every reachable state, after any sequence of addPeer, removePeer and
\* routed PEER_ANNOUNCE messages, the number of known peers is at most maxPeers.
C6_PeerCountBounded == Cardinality(DOMAIN peers) <= maxPeers
\* The directory is full again after a peer was removed (its connection record
\* is left), and one more registration was turned away.
C6_Witness ==
  /\ Cardinality(DOMAIN peers) = maxPeers
  /\ result = PeerLimitError
  /\ \E p \in DOMAIN connections : p \notin DOMAIN peers /\ p \notin dbPeers

\* C7: initializeConnection called when the number of connections has reached
\* maxConnections fails with 'Maximum connection limit reached' and creates no
\* Connection record, neither in this.connections nor in the connections table,
\* and starts no establishment attempt.
C7_ConnectionLimitRejects ==
  [][\A p \in ConnIds :
        (Cardinality(DOMAIN connections) >= maxConnections /\ InitializeConnection(p)) =>
           /\ result' = ConnectionLimitError
           /\ UNCHANGED <<connections, connOrder, dbConnections, attempts>>]_vars
\* initializeConnection was rejected with maxConnections records in the map.
C7_Witness ==
  /\ result = ConnectionLimitError
  /\ Cardinality(DOMAIN connections) = maxConnections

\* The condition of the heartbeat monitor on peer p's connection at time t.
IsTimedOut(p, t) ==
  /\ p \in DOMAIN connections
  /\ connections[p].status = "connected"
  /\ t - connections[p].lastActive > connectionTimeout
\* The monitor has run in this step.
MonitorRan == mon = "idle" /\ mon' = "done"
\* Peer p's connection was given to the retry policy in this step.
HandedToRetryPolicy(p) ==
  connections'[p].handled =
     IF connections[p].handled <= maxRetries THEN connections[p].handled + 1
     ELSE connections[p].handled

C9_OneRetryPerTimeout ==
  [][\A p \in PeerIds :
        (/\ p \in DOMAIN connections
         /\ connections[p].retries < maxRetries
         /\ \/ HandleConnectionTimeout(p)
            \/ MonitorRan /\ IsTimedOut(p, now)) =>
           /\ connections'[p].retries = connections[p].retries + 1
           /\ timers'[p] = timers[p] + 1
           /\ attempts' = attempts]_vars
\* A connection has been through one timeout: it is closed, has one retry
\* counted and one retry timer pending.
C9_Witness ==
  \E p \in DOMAIN connections :
     /\ connections[p].status = "closed"
     /\ connections[p].retries = 1
     /\ connections[p].handled = 1
     /\ connections[p].lastActive # Null
     /\ timers[p] = 1

\* C10 as stated: after maxRetries timeouts have been handled for one peer's
\* connection, shouldRetryConnection is false for it and the connection
\* remains closed.
C10_RemainsClosed ==
  \A p \in DOMAIN connections :
     connections[p].handled >= maxRetries =>
        /\ ~shouldRetryConnection(connections, p)
        /\ connections[p].status = "closed"
\* C10 (as amended): after maxRetries timeouts have been handled for one
\* peer's connection, shouldRetryConnection for that peer is false and handling
\* any further timeout or failure schedules no establishment attempt; the
\* retry scheduled by the last counted timeout may still connect it, and once
\* no retry timer and no attempt is pending for the peer the connection
\* remains closed until it is initialized again.
C10_NoRetryAfterMaxRetries ==
  [][\A p \in DOMAIN connections :
        connections[p].handled >= maxRetries =>
           /\ ~shouldRetryConnection(connections, p)
           /\ timers'[p] <= timers[p]
           /\ (/\ connections[p].status = "closed"
               /\ timers[p] = 0 /\ attempts[p] = 0
               /\ connections'[p].handled >= maxRetries)
                 => connections'[p].status = "closed"]_vars
\* One timeout more than maxRetries was handled: the connection is closed with
\* nothing pending.
C10_Witness ==
  \E p \in DOMAIN connections :
     /\ connections[p].handled = maxRetries + 1
     /\ connections[p].retries = maxRetries
     /\ connections[p].status = "closed"
     /\ timers[p] = 0 /\ attempts[p] = 0

\* C11: in every reachable state every Connection satisfies
\* 0 <= retries <= maxRetries, under any interleaving of monitor runs, timeout
\* handling, establishment failures and scheduled retries.
C11_RetriesBounded ==
  \A p \in DOMAIN connections :
     0 <= connections[p].retries /\ connections[p].retries <= maxRetries
\* The last allowed retry of a connection is scheduled: retries is at its bound.
C11_Witness ==
  \E p \in DOMAIN connections :
     /\ connections[p].retries = maxRetries
     /\ connections[p].handled = maxRetries
     /\ timers[p] = 1

Removed(p) ==
  /\ p \notin DOMAIN peers
  /\ p \notin dbPeers
  /\ dbConnections[p] = <<>>
  /\ p \in DOMAIN connections =>
        connections[p].status = "closed" /\ connections[p].lastActive = now

C14_NoConnectionAfterRemove ==
  [][\A p \in ConnIds :
        RemovePeer(p) =>
           p \notin DOMAIN connections' /\ dbConnections'[p] = <<>>]_vars

\* What addPeer of a never-seen key leaves for its id p, given the connections
\* there were: a fresh connection with one establishment attempt, or nothing
\* when the connection limit was reached.
AsNeverSeen(p) ==
  IF Cardinality(DOMAIN connections) >= maxConnections
    THEN /\ p \notin DOMAIN connections'
         /\ attempts'[p] = 0 /\ timers'[p] = 0 /\ dbConnections'[p] = <<>>
    ELSE /\ p \in DOMAIN connections' /\ connections'[p] = NewConnection
         /\ attempts'[p] = 1 /\ timers'[p] = 0
         /\ dbConnections'[p] = <<"initializing">>

\* C15: removePeer(p) followed by addPeer with p's public key behaves as addPeer
\* of a never-seen key would in the same directory: it succeeds under the same
\* conditions, yields the same id, a peer with status new and a freshly
\* initialized Connection, with nothing left over from the removed peer.
C15_ReAddAsNew ==
  [][\A d \in Descriptors :
        (generatePeerId(d) \notin DOMAIN peers /\ AddPeer(d)) =>
           /\ result' = (IF Cardinality(DOMAIN peers) >= maxPeers
                           THEN PeerLimitError ELSE "ok")
           /\ result' = "ok" =>
                 /\ generatePeerId(d) \in DOMAIN peers'
                 /\ generatePeerId(d) \in dbPeers'
                 /\ AsNeverSeen(generatePeerId(d))]_vars

(***************************************************************************)
(* Properties of the connections of one peer                                *)
(***************************************************************************)
\* The rows of the connections table for peer p that are not closed.
ActiveRows(p) == {i \in 1..Len(dbConnections[p]) : dbConnections[p][i] # "closed"}

\* C16: in every reachable state there is at most one active Connection per
\* peer, in the in-memory connections map (one entry per id by construction)
\* and in the persisted connections table alike.
C16_OneActiveConnectionPerPeer ==
  \A p \in ConnIds : Cardinality(ActiveRows(p)) <= 1

\* C17: at no time are two establishment attempts (offer/answer exchanges) for
\* the same peer in flight.
C17_OneAttemptPerPeer == \A p \in ConnIds : attempts[p] <= 1

\* C18: once removePeer(p) has completed, no establishment attempt for p that
\* was in flight takes effect: the connection of a peer that is not registered
\* never becomes connected.
C18_NoEffectAfterRemove ==
  [][\A p \in DOMAIN connections :
        (p \notin DOMAIN peers /\ p \notin DOMAIN peers') =>
           ~(connections[p].status # "connected" /\ connections'[p].status = "connected")]_vars

C20_ReturnsInitializing ==
  [][/\ \A p \in PeerIds :
          (/\ p \in DOMAIN peers
           /\ Cardinality(DOMAIN connections) < maxConnections
           /\ InitializeConnection(p)) => connections'[p] = NewConnection
     /\ \A p \in PeerIds, ok \in BOOLEAN, i \in 1..MaxAttempts :
          EstablishSettles(p, ok, i) => result' = Returned("initializing")]_vars

(***************************************************************************)
(* Properties of message handling (checked under MsgSpec)                   *)
(***************************************************************************)
\* C21: handleMessage on a value that is not an object with a string type
\* and a present data field fails with 'Invalid message format' and changes
\* neither the peers nor the connections nor anything persisted.
C21_InvalidMessageRejected ==
  [][\A m \in Messages :
       (~(m.isObject /\ m.typeIsString /\ m.hasData) /\ HandleMessage(m)) =>
          /\ result' = InvalidMessageError
          /\ UNCHANGED <<peers, connections, connOrder, dbPeers, dbConnections,
                         attempts, awaited, timers>>]_vars

\* A message was refused while a peer is registered.
C21_Witness ==
  /\ result = InvalidMessageError
  /\ peers # <<>>

\* C22: routing a valid PEER_ANNOUNCE whose public key is not in the
\* directory, while the directory is below maxPeers, increases the peer count
\* by exactly one and registers the announced peer under the hash of its
\* public key.
C22_AnnounceAddsOnePeer ==
  [][\A m \in Messages :
       (/\ m.isObject /\ m.typeIsString /\ m.hasData
        /\ m.type = "PEER_ANNOUNCE"
        /\ <<"sha256", m.data.publicKey>> \notin DOMAIN peers
        /\ Cardinality(DOMAIN peers) < maxPeers
        /\ HandleMessage(m)) =>
          /\ Cardinality(DOMAIN peers') = Cardinality(DOMAIN peers) + 1
          /\ DOMAIN peers' = DOMAIN peers \cup {<<"sha256", m.data.publicKey>>}
          /\ peers'[<<"sha256", m.data.publicKey>>] = m.data
          /\ result' = "ok"]_vars

\* An announced peer is in the directory under the hash of its key, persisted,
\* with its connection being set up.
C22_Witness ==
  \E d \in Descriptors :
    /\ result = "ok"
    /\ DOMAIN peers = {<<"sha256", d.publicKey>>}
    /\ peers[<<"sha256", d.publicKey>>] = d
    /\ <<"sha256", d.publicKey>> \in dbPeers
    /\ <<"sha256", d.publicKey>> \in DOMAIN connections
    /\ connections[<<"sha256", d.publicKey>>].status = "initializing"

\* The message types that handleMessage routes to a handler.
RoutedTypes == {"PEER_ANNOUNCE", "RESOURCE_UPDATE", "OFFER", "ANSWER", "ICE_CANDIDATE"}

\* C23: handleMessage on a well-formed message whose type is none of the
\* routed types drops it: the call resolves and neither the peers nor the
\* connections nor anything persisted changes.
C23_UnknownTypeDropped ==
  [][\A m \in Messages :
       (/\ m.isObject /\ m.typeIsString /\ m.hasData
        /\ m.type \notin RoutedTypes
        /\ HandleMessage(m)) =>
          /\ result' = "ok"
          /\ UNCHANGED <<peers, connections, connOrder, dbPeers, dbConnections,
                         attempts, awaited, timers>>]_vars

\* A well-formed message of an unrouted type exists and a call has resolved
\* with a peer registered and its exchange still in flight.
C23_Witness ==
  /\ \E m \in Messages :
       m.isObject /\ m.typeIsString /\ m.hasData /\ m.type \notin RoutedTypes
  /\ result = "ok"
  /\ peers # <<>>
  /\ \E p \in DOMAIN peers : attempts[p] > 0

(***************************************************************************)
(* Properties of broadcast (checked under BroadcastSpec)                    *)
(***************************************************************************)
\* The state of the broadcast loop that a step of it starts from.
LoopBase == IF bcast.pc = "sending" THEN bcast ELSE IdleBroadcast

\* C24: broadcast calls sendToPeer for exactly the peers whose connection is
\* connected when the loop reaches them. Every step of the loop passes over
\* the entries that are not connected without sending, sends to the first
\* connected entry it reaches, ends only past the last entry, and no peer is
\* sent to twice in one broadcast.
C24_SendsToConnectedOnly ==
  /\ [](\A i, j \in 1..Len(bcast.sent) : bcast.sent[i] = bcast.sent[j] => i = j)
  /\ [][bcast' # bcast =>
          /\ \A i \in (LoopBase.idx + 1)..bcast'.idx :
               connections[connOrder[i]].status = "connected"
                 <=> bcast'.sent = Append(LoopBase.sent, connOrder[i])
          /\ \/ bcast'.sent = LoopBase.sent
             \/ \E i \in (LoopBase.idx + 1)..bcast'.idx :
                  bcast'.sent = Append(LoopBase.sent, connOrder[i])
          /\ bcast'.pc = "done" => bcast'.idx = Len(connOrder)]_vars

\* A broadcast over two connections has ended: it sent to one peer, and the
\* other peer's connection is not connected.
C24_Witness ==
  /\ bcast.pc = "done"
  /\ Len(connOrder) = 2
  /\ Len(bcast.sent) = 1
  /\ connections[bcast.sent[1]].status = "connected"
  /\ \E p \in DOMAIN connections :
       p # bcast.sent[1] /\ connections[p].status \in {"initializing", "closed"}

\* The entries after the one being sent to whose connection is connected.
ConnectedAfter ==
  {i \in (bcast.idx + 1)..Len(connOrder) : connections[connOrder[i]].status = "connected"}

\* C25: a failure of sendToPeer for one peer does not abort the broadcast: the
\* loop goes on to the next connected peer, or ends normally if there is none,
\* and broadcast never rejects.
C25_SendFailureIsolated ==
  /\ [](bcast.outcome # "rejected")
  /\ [][(bcast.pc = "sending" /\ Len(bcast'.failed) = Len(bcast.failed) + 1) =>
          /\ bcast'.failed = Append(bcast.failed, connOrder[bcast.idx])
          /\ IF ConnectedAfter = {}
               THEN bcast'.pc = "done" /\ bcast'.outcome = "resolved"
                    /\ bcast'.sent = bcast.sent
               ELSE \E i \in ConnectedAfter :
                      /\ \A j \in ConnectedAfter : i <= j
                      /\ bcast'.pc = "sending"
                      /\ bcast'.idx = i
                      /\ bcast'.sent = Append(bcast.sent, connOrder[i])]_vars

\* A broadcast has resolved after the send to the first peer failed and the
\* second peer was sent to all the same.
C25_Witness ==
  /\ bcast.pc = "done"
  /\ bcast.outcome = "resolved"
  /\ Len(bcast.sent) = 2
  /\ Len(bcast.failed) >= 1
  /\ bcast.failed[1] = bcast.sent[1]

(***************************************************************************)
(* Properties of the sync state (checked under SyncSpec)                    *)
(***************************************************************************)
\* C26: pendingChanges grows only by queueForSync, and an item leaves it only
\* in the step in which a change exchange with a peer succeeds; no failed or
\* refused pass removes an item.
C26_PendingChanges ==
  [][/\ pendingChanges' \ pendingChanges # {} =>
          /\ calls' = calls
          /\ \E id \in Items : pendingChanges' = pendingChanges \cup {id}
     /\ pendingChanges \ pendingChanges' # {} =>
          \E c \in Calls :
            /\ calls[c].pc = "awaitExchange"
            /\ calls[c].idx \in calls'[c].exchanged \ calls[c].exchanged
            /\ pendingChanges' = pendingChanges \ calls[c].changes]_vars

\* A pass that took the queued item with it has exchanged it with a peer, and
\* the item has left pendingChanges.
C26_Witness ==
  \E c \in Calls :
    /\ calls[c].changes = {"doc1"}
    /\ calls[c].exchanged # {}
    /\ pendingChanges = {}

C28_IdByPublicKey ==
  /\ [](\A d1, d2 \in Descriptors :
          d1.publicKey = d2.publicKey <=> generatePeerId(d1) = generatePeerId(d2))
  /\ [](\A p, q \in DOMAIN peers :
          peers[p].publicKey = peers[q].publicKey => p = q)
  /\ [][\A d \in Descriptors :
          (/\ \E p \in DOMAIN peers : peers[p].publicKey = d.publicKey
           /\ AddPeer(d)
           /\ result' = "ok") =>
             /\ DOMAIN peers' = DOMAIN peers
             /\ \E p \in DOMAIN peers' : peers'[p] = d]_vars

\* A key was registered a second time, under another name, while its first
\* registration was in place: the directory has the one entry, and the
\* connection was initialized twice.
C28_Witness ==
  \E p \in DOMAIN peers :
    /\ DOMAIN peers = {p}
    /\ peers[p].name = "Bob"
    /\ Len(dbConnections[p]) = 2
    /\ attempts[p] = 2
    /\ result = "ok"

(***************************************************************************)
(* What the tests expect of refused and failed calls                        *)
(***************************************************************************)
\* C29: syncWithPeers called while a synchronization is in progress rejects
\* with an error. (Checked under SyncSpec.)
C29_ConcurrentSyncRejects ==
  [][\A c \in Calls, ps \in PeerLists :
        (syncInProgress /\ SyncWithPeers(c, ps)) =>
           calls'[c].outcome = "rejected"]_vars

\* C30: establishConnection for a registered peer rejects when the offer
\* cannot be created, and so does the initializeConnection call that awaits
\* it. (Checked under RaceSpec.)
C30_EstablishRejectsOnFailure ==
  [][\A p \in PeerIds, i \in 1..MaxAttempts :
        (p \in DOMAIN peers /\ EstablishSettles(p, FALSE, i)) =>
           result' = ExchangeError]_vars

(***************************************************************************)
(* The connection state machine (checked under RaceSpec)                    *)
(***************************************************************************)
\* The edges of the per-peer state machine; a move to closed is allowed from
\* every status, and so is the fresh record of initializeConnection.
StatusEdges ==
  {<<"initializing", "connected">>, <<"connected", "timed-out">>,
   <<"timed-out", "initializing">>}

\* C31: a connection's status changes only along the edges of the state
\* machine: initializing to connected, connected to timed-out, timed-out to
\* initializing, and a move to closed; a connection that is closed becomes
\* connected only by way of initializing.
C31_StatusFollowsStateMachine ==
  [][\A p \in DOMAIN connections :
        \/ connections'[p].status = connections[p].status
        \/ <<connections[p].status, connections'[p].status>> \in StatusEdges
        \/ connections'[p].status = "closed"
        \/ connections'[p] = NewConnection]_vars

(***************************************************************************)
(* The retries counter over the life of a record (checked under Spec)       *)
(***************************************************************************)
\* C35: a connection's retries counter never decreases, except that
\* initializeConnection replaces the record by a fresh one with retries 0 (and
\* stores a new row); a step that makes the connection connected leaves the
\* counter as it was.
C35_RetriesResetOnlyByInitialize ==
  [][\A p \in DOMAIN connections :
        /\ connections'[p].retries < connections[p].retries
             => /\ connections'[p] = NewConnection
                /\ Len(dbConnections'[p]) = Len(dbConnections[p]) + 1
        /\ connections'[p].status = "connected"
             => connections'[p].retries = connections[p].retries]_vars

\* A retry attempt succeeded: the connection is connected and its counter
\* still shows the retries it took.
C35_Witness ==
  \E p \in DOMAIN connections :
     /\ connections[p].status = "connected"
     /\ connections[p].retries > 0
     /\ connections[p].handled = connections[p].retries

(***************************************************************************)
(* The connection limit and closed connections (checked under RaceSpec)     *)
(***************************************************************************)
\* The connections that are initializing or connected.
ActiveConnections ==
  {p \in DOMAIN connections : connections[p].status \in {"initializing", "connected"}}

\* C36: only active connections count toward maxConnections: with fewer than
\* maxConnections connections initializing or connected, initializeConnection
\* for a registered peer does not fail with the connection-limit error.
C36_ClosedConnectionsDoNotCount ==
  [][\A p \in DOMAIN peers :
        (InitializeConnection(p) /\ Cardinality(ActiveConnections) < maxConnections)
           => result' # ConnectionLimitError]_vars

(***************************************************************************)
(* The backoff of the retry policy (checked under Spec)                     *)
(***************************************************************************)
\* C37: retry backoff is linear. A step that schedules a retry for a
\* connection increments its retries first and gives the timer the delay
\* retryDelay * (retries before the increment + 1), which is retryDelay * k
\* for the k-th retry of the record and never exceeds retryDelay * maxRetries.
C37_LinearBackoff ==
  [][\A p \in DOMAIN connections :
        timers'[p] > timers[p] =>
          /\ connections'[p].retries = connections[p].retries + 1
          /\ connections'[p].delay = retryDelay * (connections[p].retries + 1)
          /\ connections'[p].delay = retryDelay * connections'[p].handled
          /\ connections'[p].delay <= retryDelay * maxRetries]_vars

\* The last retry allowed for a record has been scheduled, with the longest
\* delay.
C37_Witness ==
  \E p \in DOMAIN connections :
     /\ connections[p].retries = maxRetries
     /\ connections[p].delay = retryDelay * maxRetries
     /\ timers[p] = 1

(***************************************************************************)
(* A rejected initializeConnection (checked under RaceSpec)                 *)
(***************************************************************************)
\* C40: whenever initializeConnection rejects (connection limit reached, or
\* peer not registered), the connections map and the persisted connections
\* table are as they were before the call.
C40_RejectedInitializeLeavesNoRecord ==
  [][\A p \in TwoConnIds :
        (InitializeConnection(p) /\ initializeConnection(peers, p).out # "ok")
           => /\ connections' = connections
              /\ dbConnections' = dbConnections]_vars

(***************************************************************************)
(* lastActive and traffic (checked under TrafficSpec)                       *)
(***************************************************************************)
\* C39: a connection's lastActive changes only when updateConnectionStatus
\* sets its status (it is then the time of that update); handling an inbound
\* message or a send of broadcast leaves every existing record as it is, so
\* a run of the monitor closes every connection that became connected more
\* than connectionTimeout before, whatever traffic it carried.
C39_TrafficDoesNotRefresh ==
  [][/\ \A p \in DOMAIN connections :
          connections'[p].lastActive # connections[p].lastActive =>
             \/ connections'[p] = NewConnection
             \/ /\ connections'[p].lastActive = now
                /\ connections'[p].status \in {"connected", "closed"}
     /\ (\E m \in TrafficMessages : HandleMessage(m)) =>
          \A p \in DOMAIN connections :
             connections'[p] = connections[p] \/ connections'[p] = NewConnection
     /\ (Broadcast \/ \E ok \in BOOLEAN : bcast.pc = "sending" /\ bcast' # bcast) =>
          connections' = connections
     /\ MonitorRan =>
          \A p \in TwoIds :
             IsTimedOut(p, now) =>
                /\ connections'[p].status # "connected"
                /\ HandedToRetryPolicy(p)]_vars

\* A connection that a broadcast was sent to has been closed by the monitor
\* once its timeout had passed.
C39_Witness ==
  \E p \in DOMAIN connections :
     /\ connections[p].status = "closed"
     /\ connections[p].handled = 1
     /\ connections[p].lastActive > connectionTimeout
     /\ bcast.pc = "done"
     /\ bcast.sent = <<p>>
     /\ bcast.failed = <<>>

C32_SyncPassTerminates == syncInProgress ~> ~syncInProgress

(***************************************************************************)
(* Draining of pendingChanges (checked under SyncLiveSpec)                  *)
(***************************************************************************)
\* An exchange of changes with a peer has succeeded in this step.
ExchangeSucceeded ==
  \E c \in Calls :
     /\ calls[c].pc = "awaitExchange"
     /\ calls[c].idx \in calls'[c].exchanged

====
